---- MODULE Spec2Model ----
(***************************************************************************)
(* A model of the molt-atproto AppView: the moderation lane (mod actions,  *)
(* appeals, appeal resolutions and the state derived from them), the       *)
(* authority lane (role grants, execution-time validation, permission      *)
(* ghosts) and the testimony lane (the two testimony ingestion paths).     *)
(*                                                                         *)
(* Tables hold the columns that the modelled queries read.  Each lane has  *)
(* its own specification (SpecMod, SpecAuth, SpecTestimony); the lanes     *)
(* share only the clock.                                                   *)
(***************************************************************************)
EXTENDS Integers, Sequences, FiniteSets, Bags, TLC

VARIABLES
    now,                      \* the wall clock (new Date())
    molt_mod_actions,         \* table written by indexModAction
    molt_appeals,             \* table written by indexAppeal
    molt_appeal_resolutions,  \* table written by indexAppealResolution
    mod_actions,              \* table read by getStanding / getPost (status column)
    delivered,                \* history: the moderation records handed to handleRecord
    roleHistory,              \* the role grants, with their revocations
    lastExec,                 \* the last attempt to execute a moderation action
    testimonies,              \* table written by handleCreateTestimony (a bag of rows)
    molt_testimonies,         \* table written by indexTestimony
    result,                   \* what the last testimony handler returned
    posts,                    \* table written by handleCreatePost
    votes,                    \* table written by handleCreateVote
    writeResult,              \* what the last post or vote handler returned
    molt_votes,               \* table written by indexVote
    testimonySubjects,        \* the testimony windows opened by onModAction
    windowTestimonies,        \* the testimonies filed about a window's subject
    inflight,                 \* the handleCreateVote calls between two awaits
    feed_posts,               \* the posts table with the columns the feed reads
    paging                    \* a client paging through a submolt, cursor by cursor

modVars == <<molt_mod_actions, molt_appeals, molt_appeal_resolutions, mod_actions, delivered>>
authVars == <<roleHistory, lastExec>>
testimonyVars == <<testimonies, molt_testimonies, result>>
postVars == <<posts, votes, writeResult>>
indexVars == <<molt_votes>>
windowVars == <<testimonySubjects, windowTestimonies>>
raceVars == <<inflight>>
feedVars == <<feed_posts, paging>>
otherVars == <<postVars, indexVars, windowVars, raceVars, feedVars>>

(***************************************************************************)
(* Bounds and value sets                                                   *)
(***************************************************************************)
MaxTime == 2

Times == 1..MaxTime

ModActionUris == {"m1", "m2"}
AppealUris == {"a1", "a2"}
ResolutionUris == {"r1", "r2"}

\* null / '' for a reference column, null for a DateTime column
NoRef == ""
NoTime == 0

Outcomes == {"upheld", "overturned", "modified", "remanded"}

\* The app.molt.modAction records of the environment: a plain action
\* (optionally temporary), or a soft reversal carrying `reverses`.
ModActionRecords ==
    [action : {"remove"}, appealsTo : {NoRef}, reverses : {NoRef},
     expiresAt : {NoTime} \cup Times]
    \cup
    [action : {"reverse"}, appealsTo : {NoRef}, reverses : ModActionUris,
     expiresAt : {NoTime}]

\* app.molt.appeal records: subject is the modAction URI.
AppealRecords == [subject : ModActionUris, createdAt : Times]

\* app.molt.appealResolution records.
ResolutionRecords == [appeal : AppealUris, outcome : Outcomes, createdAt : Times]

(***************************************************************************)
(* The database as one value, so that the indexing methods are operators   *)
(***************************************************************************)
Db ==
    [molt_mod_actions |-> molt_mod_actions,
     molt_appeals |-> molt_appeals,
     molt_appeal_resolutions |-> molt_appeal_resolutions,
     mod_actions |-> mod_actions]

EmptyDb ==
    [molt_mod_actions |-> {}, molt_appeals |-> {},
     molt_appeal_resolutions |-> {}, mod_actions |-> {}]

\* INSERT INTO molt_mod_actions: the column list has appeals_to and
\* expires_at, and neither `reverses` nor a status.
indexModAction(db, uri, r) ==
    [db EXCEPT !.molt_mod_actions = @ \cup
        {[uri |-> uri, action |-> r.action,
          appeals_to |-> r.appealsTo, expires_at |-> r.expiresAt]}]

\* INSERT INTO molt_appeals
indexAppeal(db, uri, r) ==
    [db EXCEPT !.molt_appeals = @ \cup
        {[uri |-> uri, subject_uri |-> r.subject, created_at |-> r.createdAt]}]

\* A resolution whose appeal is not stored is dropped.
indexAppealResolution_DropsDangling(db, uri, r) ==
    IF \E a \in db.molt_appeals : a.uri = r.appeal
    THEN [db EXCEPT !.molt_appeal_resolutions = @ \cup
            {[uri |-> uri, appeal_uri |-> r.appeal, outcome |-> r.outcome,
              created_at |-> r.createdAt]}]
    ELSE db

\* INSERT INTO molt_appeal_resolutions: unconditional.
indexAppealResolution(db, uri, r) ==
    [db EXCEPT !.molt_appeal_resolutions = @ \cup
        {[uri |-> uri, appeal_uri |-> r.appeal, outcome |-> r.outcome,
          created_at |-> r.createdAt]}]

\* handleRecord: the switch on the collection.
handleRecord(db, collection, uri, record) ==
    CASE collection = "app.molt.modAction" -> indexModAction(db, uri, record)
      [] collection = "app.molt.appeal" -> indexAppeal(db, uri, record)
      [] collection = "app.molt.appealResolution" -> indexAppealResolution(db, uri, record)
      [] OTHER -> db

(***************************************************************************)
(* State derivation: getModActionStatus                                    *)
(***************************************************************************)
\* indexer.getAppeals(modActionUri): molt_appeals WHERE subject_uri = uri
getAppeals(db, modActionUri) ==
    {a \in db.molt_appeals : a.subject_uri = modActionUri}

\* The orders in which the loop may meet the appeals: creation order, any
\* order among appeals created at the same time.
AppealOrders(appeals) ==
    {o \in [1..Cardinality(appeals) -> appeals] :
        /\ \A i, j \in DOMAIN o : i # j => o[i] # o[j]
        /\ \A i, j \in DOMAIN o : i < j => o[i].created_at <= o[j].created_at}

NoResolution == [uri |-> NoRef, appeal_uri |-> NoRef, outcome |-> "", created_at |-> NoTime]

\* indexer.getResolution(appeal.uri): the latest resolution of the appeal
\* (any of them when several share the latest created_at), or null.
getResolution(db, appealUri) ==
    LET rs == {r \in db.molt_appeal_resolutions : r.appeal_uri = appealUri}
    IN IF rs = {} THEN {NoResolution}
       ELSE {r \in rs : \A q \in rs : q.created_at <= r.created_at}

\* The switch on resolution.outcome.
OutcomeState(state, outcome) ==
    CASE outcome = "overturned" -> "overturned"
      [] outcome = "modified" -> "modified"
      [] outcome = "remanded" -> "remanded"
      [] outcome = "upheld" -> "active"
      [] OTHER -> state

\* The for loop over the appeals, from position i with the state so far:
\* the set of states it can end in.
RECURSIVE AppealLoop(_, _, _, _)
AppealLoop(db, order, i, state) ==
    IF i > Len(order) THEN {state}
    ELSE UNION {AppealLoop(db, order, i + 1,
                    IF resolution # NoResolution
                    THEN OutcomeState(state, resolution.outcome)
                    ELSE state) :
                resolution \in getResolution(db, order[i].uri)}

\* The state stays 'active' when appeals exist and none is resolved.
getModActionStatus_NoAppealed(db, modActionUri) ==
    LET appeals == getAppeals(db, modActionUri)
    IN {[modActionUri |-> modActionUri, currentState |-> s, appeals |-> <<>>] :
         s \in IF appeals = {} THEN {"active"}
               ELSE UNION {AppealLoop(db, o, 1, "active") : o \in AppealOrders(appeals)}}

\* getModActionStatus: every AppealStatus the call can return.
getModActionStatus(db, modActionUri) ==
    LET appeals == getAppeals(db, modActionUri)
    IN {[modActionUri |-> modActionUri, currentState |-> s, appeals |-> <<>>] :
         s \in IF appeals = {} THEN {"active"}
               ELSE UNION {AppealLoop(db, o, 1, "appealed") : o \in AppealOrders(appeals)}}

\* The derived states of an action.
DerivedStates(db, modActionUri) ==
    {st.currentState : st \in getModActionStatus(db, modActionUri)}

\* ma.status as getStanding and getPost read it from mod_actions.
StoredStatus(db, modActionUri) ==
    {ma.status : ma \in {x \in db.mod_actions : x.uri = modActionUri}}

(***************************************************************************)
(* Moderation lane: actions                                                *)
(***************************************************************************)
StoredUris ==
    {x.uri : x \in molt_mod_actions} \cup {x.uri : x \in molt_appeals}
        \cup {x.uri : x \in molt_appeal_resolutions}

\* One firehose delivery.  A record is immutable, so a URI is delivered
\* with one content only.
Deliver(collection, uri, record) ==
    /\ uri \notin {d.uri : d \in delivered}
    /\ LET db == handleRecord(Db, collection, uri, record)
       IN /\ molt_mod_actions' = db.molt_mod_actions
          /\ molt_appeals' = db.molt_appeals
          /\ molt_appeal_resolutions' = db.molt_appeal_resolutions
          /\ mod_actions' = db.mod_actions
    /\ delivered' = delivered \cup
          {[collection |-> collection, uri |-> uri, record |-> record]}
    /\ UNCHANGED <<now, authVars, testimonyVars, otherVars>>

HandleModAction ==
    \E uri \in ModActionUris, r \in ModActionRecords :
        Deliver("app.molt.modAction", uri, r)

HandleAppeal ==
    \E uri \in AppealUris, r \in AppealRecords :
        Deliver("app.molt.appeal", uri, r)

HandleAppealResolution ==
    \E uri \in ResolutionUris, r \in ResolutionRecords :
        Deliver("app.molt.appealResolution", uri, r)

Tick ==
    /\ now < MaxTime
    /\ now' = now + 1

TickMod == Tick /\ UNCHANGED <<modVars, authVars, testimonyVars, otherVars>>

InitMod ==
    /\ molt_mod_actions = {}
    /\ molt_appeals = {}
    /\ molt_appeal_resolutions = {}
    /\ mod_actions = {}
    /\ delivered = {}

NextMod ==
    \/ HandleModAction
    \/ HandleAppeal
    \/ HandleAppealResolution
    \/ TickMod

(***************************************************************************)
(* Action chains: modAction records that reference one another             *)
(***************************************************************************)
\* The app.molt.modAction records an operator can publish when the kinds
\* appeal and reverse and both reference fields are free: the reference may
\* be absent, name the record itself, or name any other record key.
ChainModActionRecords ==
    [action : {"remove", "appeal", "reverse"},
     appealsTo : ModActionUris \cup {NoRef},
     reverses : ModActionUris \cup {NoRef},
     expiresAt : {NoTime}]

\* One round of the recursive member of action_chain:
\*     SELECT a.* FROM mod_actions a JOIN action_chain c
\*         ON a.appeals_to_uri = c.uri
ChainStep(db, working) ==
    {a \in db.molt_mod_actions : a.appeals_to \in {c.uri : c \in working}}

\* WITH action_chain AS (... UNION ALL ...): the rounds are repeated until
\* one of them adds no row.  A round that is still non-empty after more
\* rounds than the table has rows has met a row twice, and then no later
\* round is empty: the query does not end.
RECURSIVE action_chain_rounds(_, _, _, _)
action_chain_rounds(db, working, rows, round) ==
    IF working = {} THEN [terminates |-> TRUE, rows |-> rows]
    ELSE IF round > Cardinality(db.molt_mod_actions)
    THEN [terminates |-> FALSE, rows |-> rows]
    ELSE action_chain_rounds(db, ChainStep(db, working),
                             rows \cup ChainStep(db, working), round + 1)

action_chain(db, uri) ==
    LET anchor == {a \in db.molt_mod_actions : a.uri = uri}
    IN action_chain_rounds(db, anchor, anchor, 1)

HandleChainAction ==
    \E uri \in ModActionUris, r \in ChainModActionRecords :
        Deliver("app.molt.modAction", uri, r)

NextChain == HandleChainAction

(***************************************************************************)
(* Temporary actions: expiresAt against the clock                          *)
(***************************************************************************)
\* Actions issued with or without an expiresAt.
TimedModActionRecords ==
    [action : {"ban", "remove", "warn"}, appealsTo : {NoRef},
     reverses : {NoRef}, expiresAt : {NoTime} \cup Times]

\* isBanActive: no expiration is permanent; otherwise expiresAt > new Date().
isBanActive(modAction) ==
    IF modAction.action # "ban" THEN FALSE
    ELSE IF modAction.expires_at = NoTime THEN TRUE
    ELSE modAction.expires_at > now

\* getBanTimeRemaining: 'Permanent', 'Expired' when expiresAt <= now, or
\* the days or hours left.
getBanTimeRemaining(modAction) ==
    IF modAction.expires_at = NoTime THEN "Permanent"
    ELSE IF modAction.expires_at <= now THEN "Expired"
    ELSE "remaining"

HandleTimedAction ==
    \E uri \in ModActionUris, r \in TimedModActionRecords :
        Deliver("app.molt.modAction", uri, r)

TickExpiry == Tick /\ UNCHANGED <<modVars, authVars, testimonyVars, otherVars>>

NextExpiry ==
    \/ HandleTimedAction
    \/ TickExpiry

(***************************************************************************)
(* Authority lane: role grants, execution-time validation, permission      *)
(* ghosts                                                                  *)
(***************************************************************************)
Actors == {"alice", "bob"}
Contexts == {"c1", "c2"}

NoExec == [executed |-> FALSE]

\* RoleGrant {actorId, contextId, role, grantedAt, revokedAt}: authority
\* holds on [grantedAt, revokedAt).
InInterval(g, t) ==
    /\ g.grantedAt <= t
    /\ (g.revokedAt = NoTime \/ t < g.revokedAt)

hasAuthority(roles, actorId, contextId, atTime) ==
    \E g \in roles :
        g.actorId = actorId /\ g.contextId = contextId /\ InInterval(g, atTime)

hasAuthorityNow(operatorDid, submolt) ==
    hasAuthority(roleHistory, operatorDid, submolt, now)

\* hadAuthorityAt(did, createdAt): called without a context.
hadAuthorityAt(operatorDid, createdAt) ==
    \E g \in roleHistory : g.actorId = operatorDid /\ InInterval(g, createdAt)

\* validateAction_WRONG: the authority held when the action was drafted.
validateAction_WRONG(action) ==
    hadAuthorityAt(action.operatorDid, action.createdAt)

\* validateAction_RIGHT: the authority held when the action is executed.
validateAction_RIGHT(action) ==
    hasAuthorityNow(action.operatorDid, action.submolt)

\* actor.currentRole, per context.
currentRole(actor, context) ==
    IF hasAuthorityNow(actor, context) THEN "moderator" ELSE "none"

\* The transitions a role gives: the role-gated ones.
RoleGated == {"resolve_appeal", "issue_mod_action", "hard_reverse"}

getTransitionsForRole(role) ==
    IF role = "moderator"
    THEN {[type |-> t, standing_basis |-> NoRef] : t \in RoleGated}
    ELSE {}

\* wasFormerMod(actor, context): a grant of the context that has ended.
wasFormerMod(actor, context) ==
    \E g \in roleHistory :
        /\ g.actorId = actor /\ g.contextId = context
        /\ g.revokedAt # NoTime /\ g.revokedAt <= now

\* getAvailableTransitions(actor, context); no transition declares a guard,
\* so each is enabled.
getAvailableTransitions(actor, context) ==
    LET baseTransitions == getTransitionsForRole(currentRole(actor, context))
        standingModifiedTransitions ==
            {[type |-> t.type, standing_basis |-> t.standing_basis, enabled |-> TRUE] :
                t \in baseTransitions}
    IN IF wasFormerMod(actor, context)
       THEN standingModifiedTransitions \cup
                {[type |-> "file_testimony",
                  standing_basis |-> "historical-involvement", enabled |-> TRUE]}
       ELSE standingModifiedTransitions

GrantRole ==
    \E a \in Actors, c \in Contexts :
        /\ ~hasAuthorityNow(a, c)
        /\ \A g \in roleHistory :
               (g.actorId = a /\ g.contextId = c) => g.grantedAt < now
        /\ roleHistory' = roleHistory \cup
               {[actorId |-> a, contextId |-> c, role |-> "moderator",
                 grantedAt |-> now, revokedAt |-> NoTime]}
        /\ lastExec' = NoExec
        /\ UNCHANGED <<now, modVars, testimonyVars, otherVars>>

RevokeRole ==
    \E g \in roleHistory :
        /\ g.revokedAt = NoTime
        /\ g.grantedAt < now
        /\ roleHistory' = (roleHistory \ {g}) \cup {[g EXCEPT !.revokedAt = now]}
        /\ lastExec' = NoExec
        /\ UNCHANGED <<now, modVars, testimonyVars, otherVars>>

\* An operator submits a moderation action drafted at createdAt; it is
\* validated now and refused with AuthorityRequired when validation fails.
ExecuteAction ==
    \E a \in Actors, c \in Contexts, t \in 1..now :
        LET action == [operatorDid |-> a, submolt |-> c, createdAt |-> t]
        IN /\ lastExec' =
                  [executed |-> TRUE, action |-> action, executedAt |-> now,
                   error |-> IF validateAction_RIGHT(action)
                             THEN NoRef ELSE "AuthorityRequired"]
           /\ UNCHANGED <<now, roleHistory, modVars, testimonyVars, otherVars>>

TickAuth == Tick /\ UNCHANGED <<modVars, authVars, testimonyVars, otherVars>>

InitAuth ==
    /\ roleHistory = {}
    /\ lastExec = NoExec

NextAuth ==
    \/ GrantRole
    \/ RevokeRole
    \/ ExecuteAction
    \/ TickAuth

(***************************************************************************)
(* Testimony lane: the write handler and the firehose path                 *)
(***************************************************************************)
MaxTestimonies == 2
MaxIndexed == 1

Dids == {"alice", "bob"}
TestimonyUris == {"t1", "t2"}

\* params of handleCreateTestimony: the well-formed records, and each way
\* of being malformed.
WellFormedParams ==
    [uri : TestimonyUris, did : Dids, type : {"app.molt.testimony"},
     subject : Dids, category : {"positive", "negative", "neutral"},
     content : {"text"}, context : {NoRef, "c1"}, createdAt : Times]

MalformedParams ==
    LET p == [uri |-> "t1", did |-> "alice", type |-> "app.molt.testimony",
              subject |-> "bob", category |-> "positive", content |-> "text",
              context |-> NoRef, createdAt |-> 1]
    IN {[p EXCEPT !.type = "app.molt.vote"], [p EXCEPT !.subject = NoRef],
        [p EXCEPT !.category = NoRef], [p EXCEPT !.content = NoRef],
        [p EXCEPT !.category = "bogus"]}

CreateTestimonyParams == WellFormedParams \cup MalformedParams

\* The records of the firehose path.
FirehoseTestimonyRecords ==
    [subject : Dids \cup {"m1"}, position : {"support"}]

Success(uri) == [success |-> TRUE, uri |-> uri, error |-> NoRef]
Failure(error) == [success |-> FALSE, uri |-> NoRef, error |-> error]

TestimonyRow(p) ==
    [uri |-> p.uri, witness_did |-> p.did, subject_did |-> p.subject,
     category |-> p.category, content |-> p.content, context |-> p.context,
     created_at |-> p.createdAt]

\* handleCreateTestimony: the validations in order, then the INSERT, which
\* may throw (dbOk = FALSE).
handleCreateTestimony(table, p, dbOk) ==
    IF p.type # "app.molt.testimony"
    THEN [table |-> table, result |-> Failure("Invalid record type")]
    ELSE IF p.subject = NoRef \/ p.category = NoRef \/ p.content = NoRef
    THEN [table |-> table, result |-> Failure("Missing required fields")]
    ELSE IF p.category \notin {"positive", "negative", "neutral"}
    THEN [table |-> table, result |-> Failure("Invalid category")]
    ELSE IF p.subject = p.did
    THEN [table |-> table, result |-> Failure("Cannot testify about yourself")]
    ELSE IF dbOk
    THEN [table |-> table (+) SetToBag({TestimonyRow(p)}), result |-> Success(p.uri)]
    ELSE [table |-> table, result |-> Failure("Database error")]

\* A handleDeleteTestimony that reports success and keeps the row.
handleDeleteTestimony_KeepsRow(table, uri, dbOk) ==
    IF dbOk
    THEN [table |-> table, result |-> Success(NoRef)]
    ELSE [table |-> table, result |-> Failure("Database error")]

\* handleDeleteTestimony: DELETE FROM testimonies WHERE uri = {uri}
handleDeleteTestimony(table, uri, dbOk) ==
    IF dbOk
    THEN [table |-> [r \in {x \in DOMAIN table : x.uri # uri} |-> table[r]],
          result |-> Success(NoRef)]
    ELSE [table |-> table, result |-> Failure("Database error")]

\* indexTestimony: INSERT INTO molt_testimonies, no validation.
indexTestimony(table, uri, did, r) ==
    table \cup {[uri |-> uri, did |-> did, subject_uri |-> r.subject,
                 position |-> r.position]}

HandleCreateTestimony ==
    \E p \in CreateTestimonyParams, dbOk \in BOOLEAN :
        /\ BagCardinality(testimonies) < MaxTestimonies
        /\ LET out == handleCreateTestimony(testimonies, p, dbOk)
           IN /\ testimonies' = out.table
              /\ result' = out.result
        /\ UNCHANGED <<now, molt_testimonies, modVars, authVars, otherVars>>

HandleDeleteTestimony ==
    \E uri \in TestimonyUris, dbOk \in BOOLEAN :
        /\ LET out == handleDeleteTestimony(testimonies, uri, dbOk)
           IN /\ testimonies' = out.table
              /\ result' = out.result
        /\ UNCHANGED <<now, molt_testimonies, modVars, authVars, otherVars>>

\* handleRecord('app.molt.testimony', did, rkey, record)
HandleTestimonyRecord ==
    \E uri \in TestimonyUris, did \in Dids, r \in FirehoseTestimonyRecords :
        /\ Cardinality(molt_testimonies) < MaxIndexed
        /\ uri \notin {x.uri : x \in molt_testimonies}
        /\ molt_testimonies' = indexTestimony(molt_testimonies, uri, did, r)
        /\ UNCHANGED <<now, testimonies, result, modVars, authVars, otherVars>>

InitTestimony ==
    /\ testimonies = EmptyBag
    /\ molt_testimonies = {}
    /\ result = Success(NoRef)

NextTestimony ==
    \/ HandleCreateTestimony
    \/ HandleDeleteTestimony
    \/ HandleTestimonyRecord

(***************************************************************************)
(* Standing: getStanding and calculatePhi over the testimonies table       *)
(***************************************************************************)
\* LIMIT 50 of the testimony query, scaled to the size of the table.
FetchLimit == 1

\* A rational number, as calculatePhi's floating point values are modelled.
Ratio(num, den) == [num |-> num, den |-> den]
Leq(a, b) == a.num * b.den <= b.num * a.den
Same(a, b) == a.num * b.den = b.num * a.den

\* Math.max(0, Math.min(1, x))
Clamp(x) ==
    IF x.num < 0 THEN Ratio(0, 1)
    ELSE IF x.num > x.den THEN Ratio(1, 1)
    ELSE x

RECURSIVE Pow(_, _)
Pow(base, n) == IF n = 0 THEN 1 ELSE base * Pow(base, n - 1)

METHODOLOGY_V1 ==
    [version |-> "molt-v1",
     weights |-> [positive |-> 1, negative |-> -1, neutral |-> 0,
                  recencyHalfLifeDays |-> 30,
                  witnessStandingMultiplier |-> Ratio(1, 2)]]

\* A recency weight that ignores the age of the testimony.
recencyWeight_Flat(created_at) == Pow(2, MaxTime)

\* A recency weight that falls linearly with the age of the testimony.
recencyWeight_Linear(created_at) == MaxTime + 1 + created_at - now

\* Math.pow(0.5, ageMs / halfLifeMs) with the clock counting half-lives,
\* times 2^MaxTime: an integer for every createdAt the records carry.
recencyWeight(created_at) == Pow(2, MaxTime + created_at - now)

categoryValue(category) ==
    CASE category = "positive" -> 1
      [] category = "negative" -> -1
      [] OTHER -> 0

RECURSIVE weightedSum(_)
weightedSum(ts) ==
    IF ts = <<>> THEN 0
    ELSE categoryValue(Head(ts).category) * recencyWeight(Head(ts).created_at)
             + weightedSum(Tail(ts))

RECURSIVE totalWeight(_)
totalWeight(ts) ==
    IF ts = <<>> THEN 0
    ELSE recencyWeight(Head(ts).created_at) + totalWeight(Tail(ts))

\* 1 - Math.pow(0.9, n)
confidenceOf(n) == Ratio(Pow(10, n) - Pow(9, n), Pow(10, n))

\* A calculatePhi that returns the raw score, neither normalised nor clamped.
calculatePhi_RawScore(ts, methodology) ==
    [value |-> IF totalWeight(ts) > 0
               THEN Ratio(weightedSum(ts), totalWeight(ts)) ELSE Ratio(0, 1),
     confidence |-> confidenceOf(Len(ts)),
     computedAt |-> now]

\* A calculatePhi whose confidence counts the positive testimonies only.
calculatePhi_CountsPositive(ts, methodology) ==
    [value |-> Ratio(1, 2),
     confidence |->
         confidenceOf(Len(SelectSeq(ts, LAMBDA t : t.category = "positive"))),
     computedAt |-> now]

\* calculatePhi(testimonies, methodology); `now` is the clock it reads.
calculatePhi(ts, methodology) ==
    IF Len(ts) = 0
    THEN [value |-> Ratio(1, 2), confidence |-> Ratio(0, 1), computedAt |-> now]
    ELSE
      LET tw == totalWeight(ts)
          \* (rawScore + 1) / 2 with rawScore = weightedSum / totalWeight
          normalizedScore ==
              IF tw > 0 THEN Ratio(weightedSum(ts) + tw, 2 * tw) ELSE Ratio(1, 2)
      IN [value |-> Clamp(normalizedScore),
          confidence |-> Clamp(confidenceOf(Len(ts))),
          computedAt |-> now]

\* The rows of the table, each copy of a duplicated row apart.
Copies(table) ==
    UNION {{[row |-> r, copy |-> i] : i \in 1..table[r]} : r \in DOMAIN table}

Min(a, b) == IF a < b THEN a ELSE b

\* The rows the query may consider: WHERE subject_did = {did}
\*     [AND context = {context}]
Matching(table, did, context) ==
    {c \in Copies(table) :
        /\ c.row.subject_did = did
        /\ (context = NoRef \/ c.row.context = context)}

\* ... ORDER BY created_at DESC LIMIT 50: the lists the query can return.
QueryTestimonies(matching) ==
    LET n == Cardinality(matching)
        orders == {f \in [1..n -> matching] :
                      /\ \A i, j \in 1..n : i # j => f[i] # f[j]
                      /\ \A i, j \in 1..n :
                             i < j => f[i].row.created_at >= f[j].row.created_at}
    IN {[i \in 1..Min(n, FetchLimit) |-> f[i].row] : f \in orders}

TestimonyView(t) ==
    [uri |-> t.uri, witness |-> t.witness_did, category |-> t.category,
     content |-> t.content, createdAt |-> t.created_at]

Response(did, context, ts) ==
    [did |-> did, context |-> context,
     phi |-> calculatePhi(ts, METHODOLOGY_V1),
     methodology |-> METHODOLOGY_V1,
     testimonies |-> [i \in DOMAIN ts |-> TestimonyView(ts[i])]]

\* A getStanding whose query has no context condition.
getStanding_IgnoresContext(table, did, context) ==
    {Response(did, context, ts) :
        ts \in QueryTestimonies(Matching(table, did, NoRef))}

\* getStanding(params, db): the responses it can give. No row of mod_actions
\* exists, so modActions is undefined in each.
getStanding(table, did, context) ==
    {Response(did, context, ts) :
        ts \in QueryTestimonies(Matching(table, did, context))}

TickStanding == Tick /\ UNCHANGED <<modVars, authVars, testimonyVars, otherVars>>

NextStanding ==
    \/ HandleCreateTestimony
    \/ HandleDeleteTestimony
    \/ TickStanding

(***************************************************************************)
(* Post and vote lane: the write handlers of posts and votes               *)
(***************************************************************************)
MaxCount == 1

PostUris == {"p1", "p2"}
VoteUris == {"v1", "v2", "v3"}

\* An AT URI names the repository of its author: at://{did}/...
PostAuthor(uri) == IF uri = "p1" THEN "alice" ELSE "bob"
VoteAuthor(uri) == IF uri = "v3" THEN "bob" ELSE "alice"

\* The database steps of the longest path of a handler.
CreateVoteSteps == 5
CreatePostSteps == 4
DeleteSteps == 3

\* The promise of a handler rejects: an exception left the handler.
Threw == [success |-> FALSE, uri |-> NoRef, error |-> "uncaught exception"]

WellFormedVotes ==
    {p \in [uri : VoteUris, did : Dids, type : {"app.molt.vote"},
            subject : PostUris, direction : {"up", "down"}] :
        p.did = VoteAuthor(p.uri)}

MalformedVotes ==
    LET p == [uri |-> "v1", did |-> "alice", type |-> "app.molt.vote",
              subject |-> "p1", direction |-> "up"]
    IN {[p EXCEPT !.type = "app.molt.post"], [p EXCEPT !.subject = NoRef],
        [p EXCEPT !.direction = NoRef], [p EXCEPT !.direction = "sideways"]}

CreateVoteParams == WellFormedVotes \cup MalformedVotes

WellFormedPosts ==
    {p \in [uri : PostUris, did : Dids, type : {"app.molt.post"},
            text : {"text"}, submolt : {"c1"}, replyTo : PostUris \cup {NoRef}] :
        p.did = PostAuthor(p.uri) /\ p.replyTo # p.uri}

MalformedPosts ==
    LET p == [uri |-> "p1", did |-> "alice", type |-> "app.molt.post",
              text |-> "text", submolt |-> "c1", replyTo |-> NoRef]
    IN {[p EXCEPT !.type = "app.molt.vote"], [p EXCEPT !.text = NoRef],
        [p EXCEPT !.submolt = NoRef]}

CreatePostParams == WellFormedPosts \cup MalformedPosts

PostDb == [posts |-> posts, votes |-> votes]

\* ALTER TABLE posts UPDATE {column} = {column} + 1 WHERE uri = {uri}
Increment(table, uri, column) ==
    {IF r.uri = uri THEN [r EXCEPT ![column] = @ + 1] ELSE r : r \in table}

\* A decrement without the `AND {column} > 0` condition.
Decrement_Unguarded(table, uri, column) ==
    {IF r.uri = uri THEN [r EXCEPT ![column] = @ - 1] ELSE r : r \in table}

\* ALTER TABLE posts UPDATE {column} = {column} - 1
\*     WHERE uri = {uri} AND {column} > 0
Decrement(table, uri, column) ==
    {IF r.uri = uri /\ r[column] > 0 THEN [r EXCEPT ![column] = @ - 1] ELSE r :
        r \in table}

VoteColumn(direction) ==
    IF direction = "up" THEN "upvote_count" ELSE "downvote_count"

\* SELECT uri, direction FROM votes WHERE voter_did = {did}
\*     AND subject = {subject} LIMIT 1: the results the query can give.
ExistingVotes(db, did, subject) ==
    LET found == {v \in db.votes : v.voter_did = did /\ v.subject = subject}
    IN IF found = {} THEN {<<>>} ELSE {<<v>> : v \in found}

\* A handleCreateVote without the lookup of the existing vote.
handleCreateVote_AlwaysInserts(db, p, existingVotes, failAt) ==
    [db |-> [db EXCEPT
                !.votes = @ \cup {[uri |-> p.uri, voter_did |-> p.did,
                                   subject |-> p.subject, direction |-> p.direction]},
                !.posts = Increment(@, p.subject, VoteColumn(p.direction))],
     result |-> Success(p.uri)]

\* handleCreateVote; the database call number failAt throws (0: none does).
handleCreateVote(db, p, existingVotes, failAt) ==
    IF p.type # "app.molt.vote"
    THEN [db |-> db, result |-> Failure("Invalid record type")]
    ELSE IF p.subject = NoRef \/ p.direction = NoRef
    THEN [db |-> db, result |-> Failure("Missing required fields")]
    ELSE IF p.direction \notin {"up", "down"}
    THEN [db |-> db, result |-> Failure("Invalid direction")]
    ELSE IF failAt = 1
    THEN [db |-> db, result |-> Failure("Database error")]
    ELSE IF existingVotes # <<>> /\ existingVotes[1].direction = p.direction
    THEN [db |-> db, result |-> Success(p.uri)]
    ELSE
      LET change == existingVotes # <<>>
          calls == IF change THEN 3 ELSE 1
          db1 == IF change
                 THEN [db EXCEPT !.posts =
                          Decrement(@, p.subject, VoteColumn(existingVotes[1].direction))]
                 ELSE db
          db2 == IF change
                 THEN [db1 EXCEPT !.votes = {v \in @ : v.uri # existingVotes[1].uri}]
                 ELSE db1
          db3 == [db2 EXCEPT !.votes = @ \cup
                     {[uri |-> p.uri, voter_did |-> p.did, subject |-> p.subject,
                       direction |-> p.direction]}]
          db4 == [db3 EXCEPT !.posts = Increment(@, p.subject, VoteColumn(p.direction))]
      IN IF change /\ failAt = 2 THEN [db |-> db, result |-> Failure("Database error")]
         ELSE IF change /\ failAt = 3 THEN [db |-> db1, result |-> Failure("Database error")]
         ELSE IF failAt = calls + 1 THEN [db |-> db2, result |-> Failure("Database error")]
         ELSE IF failAt = calls + 2 THEN [db |-> db3, result |-> Failure("Database error")]
         ELSE [db |-> db4, result |-> Success(p.uri)]

\* A handleDeleteVote that decrements the counter of the vote's subject
\* without looking the vote up.
handleDeleteVote_NoLookup(db, uri, failAt) ==
    [db |-> [db EXCEPT !.votes = {v \in @ : v.uri # uri},
                       !.posts = Decrement(@, "p1", "upvote_count")],
     result |-> Success(NoRef)]

\* handleDeleteVote
handleDeleteVote(db, uri, failAt) ==
    LET found == {v \in db.votes : v.uri = uri}
    IN IF failAt = 1 THEN [db |-> db, result |-> Failure("Database error")]
       ELSE IF found = {} THEN [db |-> db, result |-> Success(NoRef)]
       ELSE
         LET vote == CHOOSE v \in found : TRUE
             db1 == [db EXCEPT !.votes = {v \in @ : v.uri # uri}]
             db2 == [db1 EXCEPT !.posts =
                        Decrement(@, vote.subject, VoteColumn(vote.direction))]
         IN IF failAt = 2 THEN [db |-> db, result |-> Failure("Database error")]
            ELSE IF failAt = 3 THEN [db |-> db1, result |-> Failure("Database error")]
            ELSE [db |-> db2, result |-> Success(NoRef)]

PostRow(p) ==
    [uri |-> p.uri, did |-> p.did, submolt |-> p.submolt, reply_to |-> p.replyTo,
     reply_count |-> 0, upvote_count |-> 0, downvote_count |-> 0]

\* handleCreatePost: the two existence queries run before the try block.
handleCreatePost(db, p, failAt) ==
    IF p.type # "app.molt.post"
    THEN [db |-> db, result |-> Failure("Invalid record type")]
    ELSE IF p.text = NoRef \/ p.submolt = NoRef
    THEN [db |-> db, result |-> Failure("Missing required fields")]
    ELSE IF failAt = 1
    THEN [db |-> db, result |-> Threw]
    ELSE
      LET reply == p.replyTo # NoRef
          calls == IF reply THEN 2 ELSE 1
          db1 == [db EXCEPT !.posts = @ \cup {PostRow(p)}]
          db2 == IF reply
                 THEN [db1 EXCEPT !.posts = Increment(@, p.replyTo, "reply_count")]
                 ELSE db1
      IN IF reply /\ failAt = 2 THEN [db |-> db, result |-> Threw]
         ELSE IF failAt = calls + 1 THEN [db |-> db, result |-> Failure("Database error")]
         ELSE IF reply /\ failAt = calls + 2
         THEN [db |-> db1, result |-> Failure("Database error")]
         ELSE [db |-> db2, result |-> Success(p.uri)]

\* handleDeletePost
handleDeletePost(db, uri, failAt) ==
    LET found == {r \in db.posts : r.uri = uri}
    IN IF failAt = 1 THEN [db |-> db, result |-> Failure("Database error")]
       ELSE IF found = {} THEN [db |-> db, result |-> Success(NoRef)]
       ELSE
         LET post == CHOOSE r \in found : TRUE
             db1 == [db EXCEPT !.posts = {r \in @ : r.uri # uri}]
             db2 == IF post.reply_to # NoRef
                    THEN [db1 EXCEPT !.posts = Decrement(@, post.reply_to, "reply_count")]
                    ELSE db1
         IN IF failAt = 2 THEN [db |-> db, result |-> Failure("Database error")]
            ELSE IF post.reply_to # NoRef /\ failAt = 3
            THEN [db |-> db1, result |-> Failure("Database error")]
            ELSE [db |-> db2, result |-> Success(NoRef)]

\* The counters stay within the modelled range.
CountsBounded(table) ==
    \A r \in table :
        /\ r.reply_count <= MaxCount
        /\ r.upvote_count <= MaxCount
        /\ r.downvote_count <= MaxCount

Written(out) ==
    /\ CountsBounded(out.db.posts)
    /\ posts' = out.db.posts
    /\ votes' = out.db.votes
    /\ writeResult' = out.result
    /\ UNCHANGED <<now, modVars, authVars, testimonyVars, indexVars, windowVars,
                   raceVars, feedVars>>

HandleCreateVote ==
    \E p \in CreateVoteParams, failAt \in 0..CreateVoteSteps :
        /\ p.uri \notin {v.uri : v \in votes}
        /\ \E existingVotes \in ExistingVotes(PostDb, p.did, p.subject) :
               Written(handleCreateVote(PostDb, p, existingVotes, failAt))

HandleDeleteVote ==
    \E uri \in VoteUris, failAt \in 0..DeleteSteps :
        Written(handleDeleteVote(PostDb, uri, failAt))

HandleCreatePost ==
    \E p \in CreatePostParams, failAt \in 0..CreatePostSteps :
        /\ p.uri \notin {r.uri : r \in posts}
        /\ Written(handleCreatePost(PostDb, p, failAt))

HandleDeletePost ==
    \E uri \in PostUris, failAt \in 0..DeleteSteps :
        Written(handleDeletePost(PostDb, uri, failAt))

\* getPost: the post with the standing summary of its author, or NoPost.
NoPost == [found |-> FALSE]

getPost(uri) ==
    LET found == {r \in posts : r.uri = uri}
    IN IF found = {} THEN NoPost
       ELSE
         LET post == CHOOSE r \in found : TRUE
             recent == {t \in DOMAIN testimonies :
                           /\ t.subject_did = post.did
                           /\ t.created_at > now - 1
                           /\ t.context = post.submolt}
             count(rows) == BagCardinality([t \in rows |-> testimonies[t]])
             positive_count == count({t \in recent : t.category = "positive"})
             negative_count == count({t \in recent : t.category = "negative"})
             total == positive_count + negative_count
         IN [found |-> TRUE, uri |-> post.uri,
             replyCount |-> post.reply_count,
             upvoteCount |-> post.upvote_count,
             downvoteCount |-> post.downvote_count,
             authorStanding |->
                 [phi |-> IF total > 0
                          THEN [num |-> positive_count, den |-> total]
                          ELSE [num |-> 1, den |-> 2],
                  recentTestimonyCount |-> count(recent),
                  hasActiveModAction |->
                      \E ma \in mod_actions :
                          /\ ma.subject_did = post.did
                          /\ ma.status \in {"active", "pending"}
                          /\ ma.context = post.submolt]]

InitPost ==
    /\ posts = {}
    /\ votes = {}
    /\ writeResult = Success(NoRef)

NextPost ==
    \/ HandleCreateVote
    \/ HandleDeleteVote
    \/ HandleCreatePost
    \/ HandleDeletePost

(***************************************************************************)
(* Firehose votes: handleRecord -> indexVote                               *)
(***************************************************************************)
FirehoseVoteRecords ==
    [subject : PostUris \cup {NoRef}, direction : {"up", "down", "sideways", NoRef}]

\* indexVote: INSERT INTO molt_votes, no validation.
indexVote(table, uri, did, r) ==
    table \cup {[uri |-> uri, did |-> did, subject_uri |-> r.subject,
                 direction |-> IF r.direction = "up" THEN 1 ELSE -1]}

\* handleRecord('app.molt.vote', did, rkey, record)
HandleVoteRecord ==
    \E uri \in VoteUris, r \in FirehoseVoteRecords :
        /\ uri \notin {x.uri : x \in molt_votes}
        /\ molt_votes' = indexVote(molt_votes, uri, VoteAuthor(uri), r)
        /\ UNCHANGED <<now, modVars, authVars, testimonyVars, postVars, windowVars,
                       raceVars, feedVars>>

InitIndex == molt_votes = {}

NextIndex == HandleVoteRecord

(***************************************************************************)
(* Testimony windows: onModAction opens a window, a timer closes it        *)
(***************************************************************************)
\* The default window of 72 hours, in ticks of the clock.
DEFAULT_TESTIMONY_WINDOW == 1

\* createdAt is chosen by the author of the record: it may lie after every
\* window.
WindowTimes == 1..(MaxTime + DEFAULT_TESTIMONY_WINDOW)

\* onModAction(action): the testimony subject of the action.
onModAction(subjects, action) ==
    subjects \cup
        {[ref |-> action, windowOpensAt |-> now,
          windowClosesAt |-> now + DEFAULT_TESTIMONY_WINDOW, status |-> "open"]}

\* A classification by the state of the window when the testimony arrives.
classifyTestimony_ByArrival(window, createdAt) ==
    IF window.status = "closed" THEN "post-window" ELSE "within-window"

\* Window membership by logical creation time; a testimony of the window
\* that arrives after the close is late-arriving.
classifyTestimony(window, createdAt) ==
    IF createdAt <= window.windowClosesAt
    THEN IF window.status = "closed" THEN "late-arriving" ELSE "within-window"
    ELSE "post-window"

\* An evidence set that holds every stored testimony.
defaultEvidenceSet_All(stored, ref) == {t \in stored : t.subject = ref}

\* The evidence a decision maker sees by default.
defaultEvidenceSet(stored, ref) ==
    {t \in stored : t.subject = ref /\ t.flag # "post-window"}

\* The explicit historical query.
historicalQuery(stored, ref) == {t \in stored : t.subject = ref}

OnModAction ==
    \E action \in ModActionUris :
        /\ action \notin {w.ref : w \in testimonySubjects}
        /\ testimonySubjects' = onModAction(testimonySubjects, action)
        /\ UNCHANGED <<now, windowTestimonies, modVars, authVars, testimonyVars,
                       postVars, indexVars, raceVars, feedVars>>

\* The timer-driven close.
CloseWindow ==
    \E w \in testimonySubjects :
        /\ w.status = "open"
        /\ now >= w.windowClosesAt
        /\ testimonySubjects' =
               (testimonySubjects \ {w}) \cup {[w EXCEPT !.status = "closed"]}
        /\ UNCHANGED <<now, windowTestimonies, modVars, authVars, testimonyVars,
                       postVars, indexVars, raceVars, feedVars>>

\* A testimony about a window's subject arrives.
FileWindowTestimony ==
    \E uri \in TestimonyUris, w \in testimonySubjects, createdAt \in WindowTimes :
        /\ uri \notin {t.uri : t \in windowTestimonies}
        /\ windowTestimonies' = windowTestimonies \cup
               {[uri |-> uri, subject |-> w.ref, createdAt |-> createdAt,
                 arrivedAt |-> now, flag |-> classifyTestimony(w, createdAt)]}
        /\ UNCHANGED <<now, testimonySubjects, modVars, authVars, testimonyVars,
                       postVars, indexVars, raceVars, feedVars>>

TickWindow == Tick /\ UNCHANGED <<modVars, authVars, testimonyVars, otherVars>>

InitWindow ==
    /\ testimonySubjects = {}
    /\ windowTestimonies = {}

NextWindow ==
    \/ OnModAction
    \/ CloseWindow
    \/ FileWindowTestimony
    \/ TickWindow

(***************************************************************************)
(* Concurrent handleCreateVote calls: one step per awaited database call   *)
(***************************************************************************)
\* The calls that can be between two awaits at the same time.
MaxInflight == 2

raceUnchanged ==
    <<now, modVars, authVars, testimonyVars, indexVars, windowVars, feedVars>>

\* The call returns.
Finish(c, res) ==
    /\ inflight' = inflight \ {c}
    /\ writeResult' = res

\* The call goes on to its next database call.
Advance(c, pc, existing) ==
    /\ inflight' = (inflight \ {c}) \cup {[c EXCEPT !.pc = pc, !.existing = existing]}
    /\ UNCHANGED writeResult

\* handleCreateVote is called.  The validations run before the first await:
\* a rejected call returns at once, an accepted one is about to send its
\* SELECT.
BeginCreateVote ==
    \E p \in CreateVoteParams :
        /\ Cardinality(inflight) < MaxInflight
        /\ p.uri \notin {v.uri : v \in votes} \cup {c.p.uri : c \in inflight}
        /\ LET rejected == handleCreateVote(PostDb, p, <<>>, 1).result
           IN IF rejected.error # "Database error"
              THEN /\ writeResult' = rejected
                   /\ UNCHANGED inflight
              ELSE /\ inflight' = inflight \cup
                          {[p |-> p, pc |-> "select", existing |-> <<>>]}
                   /\ UNCHANGED writeResult
        /\ UNCHANGED <<posts, votes, raceUnchanged>>

\* await db.query(SELECT uri, direction FROM votes ...)
SelectExisting ==
    \E c \in inflight, ok \in BOOLEAN :
        /\ c.pc = "select"
        /\ IF ~ok THEN Finish(c, Failure("Database error"))
           ELSE \E existing \in ExistingVotes(PostDb, c.p.did, c.p.subject) :
                    IF existing = <<>> THEN Advance(c, "insert", existing)
                    ELSE IF existing[1].direction = c.p.direction
                    THEN Finish(c, Success(c.p.uri))
                    ELSE Advance(c, "decrement", existing)
        /\ UNCHANGED <<posts, votes, raceUnchanged>>

\* await db.execute(ALTER TABLE posts UPDATE {oldColumn} - 1 ...)
DecrementOld ==
    \E c \in inflight, ok \in BOOLEAN :
        /\ c.pc = "decrement"
        /\ IF ~ok THEN Finish(c, Failure("Database error")) /\ UNCHANGED posts
           ELSE /\ posts' = Decrement(posts, c.p.subject,
                                      VoteColumn(c.existing[1].direction))
                /\ Advance(c, "delete", c.existing)
        /\ UNCHANGED <<votes, raceUnchanged>>

\* await db.execute(DELETE FROM votes WHERE uri = {oldUri})
DeleteOld ==
    \E c \in inflight, ok \in BOOLEAN :
        /\ c.pc = "delete"
        /\ IF ~ok THEN Finish(c, Failure("Database error")) /\ UNCHANGED votes
           ELSE /\ votes' = {v \in votes : v.uri # c.existing[1].uri}
                /\ Advance(c, "insert", c.existing)
        /\ UNCHANGED <<posts, raceUnchanged>>

\* await db.execute(INSERT INTO votes ...)
InsertVote ==
    \E c \in inflight, ok \in BOOLEAN :
        /\ c.pc = "insert"
        /\ IF ~ok THEN Finish(c, Failure("Database error")) /\ UNCHANGED votes
           ELSE /\ votes' = votes \cup
                       {[uri |-> c.p.uri, voter_did |-> c.p.did,
                         subject |-> c.p.subject, direction |-> c.p.direction]}
                /\ Advance(c, "increment", c.existing)
        /\ UNCHANGED <<posts, raceUnchanged>>

\* await db.execute(ALTER TABLE posts UPDATE {column} + 1 ...)
IncrementNew ==
    \E c \in inflight, ok \in BOOLEAN :
        /\ c.pc = "increment"
        /\ IF ~ok THEN Finish(c, Failure("Database error")) /\ UNCHANGED posts
           ELSE /\ posts' = Increment(posts, c.p.subject, VoteColumn(c.p.direction))
                /\ CountsBounded(posts')
                /\ Finish(c, Success(c.p.uri))
        /\ UNCHANGED <<votes, raceUnchanged>>

InitRace == inflight = {}

NextRace ==
    \/ BeginCreateVote
    \/ SelectExisting
    \/ DecrementOld
    \/ DeleteOld
    \/ InsertVote
    \/ IncrementNew
    \/ HandleDeleteVote

(***************************************************************************)
(* Feed: getSubmoltPosts and handleGetSubmoltPosts, page by page           *)
(***************************************************************************)
\* The pages one client may ask for.
MaxPages == 4

DEFAULT_LIMIT == 25
MAX_LIMIT == 100

FeedUris == {"p1", "p2", "p3"}
FeedRank(uri) == CASE uri = "p1" -> 1 [] uri = "p2" -> 2 [] OTHER -> 3

\* params.limit: absent, or a number.
NoLimit == [given |-> FALSE]
Limit(n) == [given |-> TRUE, value |-> n]
NoCursor == [present |-> FALSE]
FeedLimits == {NoLimit} \cup {Limit(n) : n \in {-1, 0, 1, 2, MAX_LIMIT + 1}}
FeedSorts == {"time", "hot", "top"}
FeedHandlers == {"getSubmoltPosts", "handleGetSubmoltPosts"}

\* A row of posts: a post is indexed at or after its creation; net is
\* upvote_count - downvote_count.
FeedRows ==
    {r \in [uri : FeedUris, submolt : Contexts, created_at : Times,
            indexed_at : Times, net : {0, 1}] :
        r.created_at <= r.indexed_at}

\* Buffer.from(JSON.stringify({t, u})).toString('base64')
encodeCursor(timestamp, uri) == [present |-> TRUE, t |-> timestamp, u |-> uri]

\* JSON.parse(Buffer.from(cursor, 'base64')): {timestamp: t, uri: u}
decodeCursor(cursor) == [timestamp |-> cursor.t, uri |-> cursor.u]

\* rows.slice(0, limit)
Slice(rows, limit) ==
    LET n == IF limit >= 0 THEN Min(limit, Len(rows))
             ELSE IF Len(rows) + limit > 0 THEN Len(rows) + limit ELSE 0
    IN SubSeq(rows, 1, n)

\* a / (age_a + 2)^(p/q) > b / (age_b + 2)^(p/q), for scores a, b >= 0
HotterThan(a, b, p, q) ==
    Pow(a.net, q) * Pow(now - b.created_at + 2, p)
        > Pow(b.net, q) * Pow(now - a.created_at + 2, p)

\* ORDER BY of getSubmoltPosts: row a has to come before row b.
OrderBy(sort, a, b) ==
    CASE sort = "hot" -> HotterThan(a, b, 3, 2)
      [] sort = "top" -> a.net > b.net
      [] OTHER -> a.indexed_at > b.indexed_at

\* ORDER BY of handleGetSubmoltPosts
OrderByCreated(sort, a, b) ==
    CASE sort = "hot" -> HotterThan(a, b, 9, 5)
      [] sort = "top" ->
             \/ a.net > b.net
             \/ a.net = b.net /\ a.created_at > b.created_at
      [] OTHER ->
             \/ a.created_at > b.created_at
             \/ a.created_at = b.created_at /\ FeedRank(a.uri) > FeedRank(b.uri)

\* The lists a query over `rows` can return: every order the ORDER BY
\* allows, cut at LIMIT fetch.
QueryPosts(rows, before(_, _), fetch) ==
    LET n == Cardinality(rows)
        orders == {f \in [1..n -> rows] :
                      /\ \A i, j \in 1..n : i # j => f[i] # f[j]
                      /\ \A i, j \in 1..n : i < j => ~before(f[j], f[i])}
    IN {[i \in 1..Min(n, fetch) |-> f[i]] : f \in orders}

Page(rows, limit, cursorOf(_)) ==
    LET hasMore == Len(rows) > limit
        resultPosts == IF hasMore THEN Slice(rows, limit) ELSE rows
    IN [posts |-> [i \in DOMAIN resultPosts |-> resultPosts[i].uri],
        cursor |-> IF hasMore /\ Len(resultPosts) > 0
                   THEN cursorOf(resultPosts[Len(resultPosts)])
                   ELSE NoCursor]

\* getSubmoltPosts(params, db): the responses it can give.
getSubmoltPosts(table, params) ==
    LET limit == Min(IF params.limit.given THEN params.limit.value ELSE DEFAULT_LIMIT,
                     MAX_LIMIT)
        rows == {r \in table :
                    /\ r.submolt = params.submolt
                    /\ params.cursor.present => r.indexed_at < params.cursor.t}
        cursorOf(last) == encodeCursor(last.indexed_at, NoRef)
        before(a, b) == OrderBy(params.sort, a, b)
    IN {Page(fetched, limit, cursorOf) :
           fetched \in QueryPosts(rows, before, limit + 1)}

\* handleGetSubmoltPosts(params, ctx): the responses it can give.
handleGetSubmoltPosts(table, params) ==
    LET asked == IF params.limit.given THEN params.limit.value ELSE DEFAULT_LIMIT
        limit == Min(IF asked > 1 THEN asked ELSE 1, MAX_LIMIT)
        decoded == decodeCursor(params.cursor)
        rows == {r \in table :
                    /\ r.submolt = params.submolt
                    /\ params.cursor.present =>
                           \/ r.created_at < decoded.timestamp
                           \/ /\ r.created_at = decoded.timestamp
                              /\ FeedRank(r.uri) < FeedRank(decoded.uri)}
        cursorOf(last) == encodeCursor(last.indexed_at, last.uri)
        before(a, b) == OrderByCreated(params.sort, a, b)
    IN {Page(fetched, limit, cursorOf) :
           fetched \in QueryPosts(rows, before, limit + 1)}

NoPaging == [active |-> FALSE]

\* INSERT INTO posts (..., created_at, indexed_at, ...), and the counters as
\* the vote handlers leave them.  No post is written while a client pages.
IndexFeedPost ==
    \E r \in FeedRows :
        /\ paging = NoPaging
        /\ r.uri \notin {x.uri : x \in feed_posts}
        /\ feed_posts' = feed_posts \cup {r}
        /\ UNCHANGED <<now, paging, modVars, authVars, testimonyVars, postVars,
                       indexVars, windowVars, raceVars>>

\* The first call of a client: no cursor.
StartPaging ==
    \E handler \in FeedHandlers, sort \in FeedSorts, limit \in FeedLimits :
        /\ paging = NoPaging
        /\ paging' = [active |-> TRUE, handler |-> handler, sort |-> sort,
                      limit |-> limit, cursor |-> NoCursor, pages |-> <<>>,
                      done |-> FALSE]
        /\ UNCHANGED <<now, feed_posts, modVars, authVars, testimonyVars, postVars,
                       indexVars, windowVars, raceVars>>

\* One call, with the cursor of the previous response.
FetchPage ==
    /\ paging # NoPaging
    /\ ~paging.done
    /\ Len(paging.pages) < MaxPages
    /\ LET params == [submolt |-> "c1", limit |-> paging.limit,
                      cursor |-> paging.cursor, sort |-> paging.sort]
       IN \E response \in
                 IF paging.handler = "getSubmoltPosts"
                 THEN getSubmoltPosts(feed_posts, params)
                 ELSE handleGetSubmoltPosts(feed_posts, params) :
              paging' = [paging EXCEPT !.pages = Append(@, response),
                                       !.cursor = response.cursor,
                                       !.done = ~response.cursor.present]
    /\ UNCHANGED <<now, feed_posts, modVars, authVars, testimonyVars, postVars,
                   indexVars, windowVars, raceVars>>

InitFeed ==
    /\ feed_posts = {}
    /\ paging = NoPaging

NextFeed ==
    \/ IndexFeedPost
    \/ StartPaging
    \/ FetchPage

(***************************************************************************)
(* Specifications                                                          *)
(***************************************************************************)
vars == <<now, modVars, authVars, testimonyVars, otherVars>>

Init ==
    /\ now = 1
    /\ InitMod
    /\ InitAuth
    /\ InitTestimony
    /\ InitPost
    /\ InitIndex
    /\ InitWindow
    /\ InitRace
    /\ InitFeed

Next == NextMod \/ NextAuth \/ NextTestimony \/ NextStanding \/ NextPost \/ NextIndex
        \/ NextWindow \/ NextChain \/ NextExpiry \/ NextRace \/ NextFeed

Spec == Init /\ [][Next]_vars

SpecMod == Init /\ [][NextMod]_vars

SpecAuth == Init /\ [][NextAuth]_vars

SpecTestimony == Init /\ [][NextTestimony]_vars

SpecStanding == Init /\ [][NextStanding]_vars

SpecPost == Init /\ [][NextPost]_vars

SpecIndex == Init /\ [][NextIndex]_vars

SpecWindow == Init /\ [][NextWindow]_vars

SpecChain == Init /\ [][NextChain]_vars

SpecExpiry == Init /\ [][NextExpiry]_vars

SpecVoteRace == Init /\ [][NextRace]_vars

SpecFeed == Init /\ [][NextFeed]_vars

(***************************************************************************)
(* Replay: the database after the delivered records have been ingested in  *)
(* creation order                                                          *)
(***************************************************************************)
UriOrder == <<"m1", "m2", "a1", "a2", "r1", "r2">>

Pos(uri) == CHOOSE i \in DOMAIN UriOrder : UriOrder[i] = uri

\* createdAt of a delivered record; mod actions come first.
CreationTime(d) ==
    IF d.collection = "app.molt.modAction" THEN NoTime ELSE d.record.createdAt

Earlier(x, y) ==
    \/ CreationTime(x) < CreationTime(y)
    \/ CreationTime(x) = CreationTime(y) /\ Pos(x.uri) < Pos(y.uri)

RECURSIVE ReplayFrom(_, _)
ReplayFrom(db, pending) ==
    IF pending = {} THEN db
    ELSE LET d == CHOOSE x \in pending : \A y \in pending \ {x} : Earlier(x, y)
         IN ReplayFrom(handleRecord(db, d.collection, d.uri, d.record), pending \ {d})

ReplayInCreationOrder(records) == ReplayFrom(EmptyDb, records)

(***************************************************************************)
(* Vocabulary of the claims about the moderation lane                      *)
(***************************************************************************)
IsStored(m) == \E x \in molt_mod_actions : x.uri = m

Expired(m) ==
    \E x \in molt_mod_actions :
        x.uri = m /\ x.expires_at # NoTime /\ now > x.expires_at

ReversedBy(m) ==
    {d \in delivered :
        /\ d.collection = "app.molt.modAction"
        /\ d.record.action = "reverse"
        /\ d.record.reverses = m
        /\ d.uri # m}

\* The resolutions that reference an appeal of the action.
ResolutionsOf(m) ==
    {r \in molt_appeal_resolutions :
        \E a \in getAppeals(Db, m) : a.uri = r.appeal_uri}

\* The latest of them by created_at.
LatestResolutions(m) ==
    {r \in ResolutionsOf(m) : \A q \in ResolutionsOf(m) : q.created_at <= r.created_at}

\* The state the documentation gives to a resolution outcome.
DocumentedState(outcome) ==
    CASE outcome = "overturned" -> "reversed"
      [] outcome = "upheld" -> "active"
      [] outcome = "modified" -> "active"
      [] outcome = "remanded" -> "under_review"

\* C1: an action that is neither expired nor reversed and has a resolved
\* appeal is in the state of its latest resolution: overturned gives
\* reversed, upheld active, modified active, remanded under_review.
C1_LatestResolutionFixesState ==
    \A m \in ModActionUris :
        (/\ IsStored(m) /\ ~Expired(m) /\ ReversedBy(m) = {}
         /\ Cardinality(LatestResolutions(m)) = 1)
        => \A r \in LatestResolutions(m) :
               DerivedStates(Db, m) = {DocumentedState(r.outcome)}

C3_MostRecentResolutionWins ==
    \A m \in ModActionUris :
        (/\ IsStored(m)
         /\ \A r \in ResolutionsOf(m) : r.outcome # "remanded"
         /\ Cardinality(LatestResolutions(m)) = 1)
        => \A r \in LatestResolutions(m) :
               DerivedStates(Db, m) = {OutcomeState("appealed", r.outcome)}

C5_StoredStatusIsDerived ==
    \A m \in ModActionUris :
        IsStored(m) => /\ StoredStatus(Db, m) # {}
                       /\ StoredStatus(Db, m) \subseteq DerivedStates(Db, m)

\* C6: an action whose expiresAt has passed is expired, whatever its
\* appeals and resolutions give.
C6_ExpiryWins ==
    \A m \in ModActionUris :
        Expired(m) => DerivedStates(Db, m) = {"expired"}

\* C7: once a reverse action that references X is ingested, X is reversed.
C7_SoftReversal ==
    \A m \in ModActionUris :
        (IsStored(m) /\ ReversedBy(m) # {}) => DerivedStates(Db, m) = {"reversed"}

(***************************************************************************)
(* Authority and permission ghosts                                         *)
(***************************************************************************)
\* The authority the role history gives actorId in contextId at time t.
HeldAt(actorId, contextId, t) ==
    \E g \in roleHistory :
        /\ g.actorId = actorId /\ g.contextId = contextId
        /\ g.grantedAt <= t
        /\ (g.revokedAt = NoTime \/ t < g.revokedAt)

TransitionTypes(actor, context) ==
    {t.type : t \in {x \in getAvailableTransitions(actor, context) : x.enabled}}

\* C9: an actor without current authority in a context has no role-gated
\* transition there, and has file-testimony about an executed action of the
\* context exactly when one of the actor's role grants covers the creation
\* time of that action.
C9_PermissionGhost ==
    \A actor \in Actors, context \in Contexts :
        ~HeldAt(actor, context, now) =>
            /\ TransitionTypes(actor, context) \cap RoleGated = {}
            /\ (/\ lastExec.executed
                /\ lastExec.error = NoRef
                /\ lastExec.action.submolt = context)
                   => ("file_testimony" \in TransitionTypes(actor, context)
                          <=> HeldAt(actor, context, lastExec.action.createdAt))

\* C10: no ingestion path stores a testimony whose witness is its subject.
C10_NoSelfTestimony ==
    /\ \A r \in DOMAIN testimonies : r.witness_did # r.subject_did
    /\ \A r \in molt_testimonies : r.did # r.subject_uri

(***************************************************************************)
(* Posts and votes                                                         *)
(***************************************************************************)
\* C11: a vote whose (voter, subject, direction) is already stored is
\* answered with success and changes neither the stored votes nor the vote
\* counts of the post, also when its uri is new.
C11_VoteIdempotent ==
    \A p \in WellFormedVotes :
        (/\ p.uri \notin {v.uri : v \in votes}
         /\ \E v \in votes : /\ v.voter_did = p.did
                             /\ v.subject = p.subject
                             /\ v.direction = p.direction)
        => \A existingVotes \in ExistingVotes(PostDb, p.did, p.subject) :
               handleCreateVote(PostDb, p, existingVotes, 0) =
                   [db |-> PostDb, result |-> Success(p.uri)]

\* A vote with a new uri and a stored business key has been answered with
\* success, and the stored vote is still the only one of its voter and
\* subject.
C11_Witness ==
    \E u \in VoteUris, v \in votes :
        /\ writeResult = Success(u)
        /\ u \notin {x.uri : x \in votes}
        /\ v.voter_did = VoteAuthor(u)
        /\ \E r \in posts : r.uri = v.subject /\ r[VoteColumn(v.direction)] = 1

\* C14: a reply whose parent has not been ingested is deferred: a reply
\* enters the posts table only when its parent is stored.
C14_DeferredUntilTarget ==
    [][\A r \in posts' :
           (r.uri \notin {x.uri : x \in posts} /\ r.reply_to # NoRef)
           => \E parent \in posts : parent.uri = r.reply_to]_vars

\* C15: no ingestion path stores a malformed vote: a stored vote has a
\* subject.
C15_MalformedRejected ==
    /\ \A v \in votes : v.subject # NoRef /\ v.direction \in {"up", "down"}
    /\ \A v \in molt_votes : v.subject_uri # NoRef

\* C16: a write handler answers a storage failure with success = FALSE and
\* never throws.
C16_NeverThrows == writeResult # Threw

\* C18: a response that carries phi carries the methodology and the
\* testimonies too.
C18_PhiNeverAlone ==
    \A uri \in PostUris :
        LET response == getPost(uri)
        IN (response.found /\ "phi" \in DOMAIN response.authorStanding)
           => {"methodology", "testimonies"} \subseteq DOMAIN response.authorStanding

(***************************************************************************)
(* Standing                                                                *)
(***************************************************************************)
StandingContexts == {NoRef, "c1"}

\* C17: getStanding returns the testimonies list, and a moreAvailable cursor
\* whenever the subject has more testimonies than the list holds.
C17_NoSilentTruncation ==
    \A did \in Dids, context \in StandingContexts :
        \A response \in getStanding(testimonies, did, context) :
            /\ "testimonies" \in DOMAIN response
            /\ Cardinality(Matching(testimonies, did, context))
                   > Len(response.testimonies)
               => "moreAvailable" \in DOMAIN response

\* C19: for a subject with no testimonies in the requested context, phi is
\* 0.5 and the confidence is 0.
C19_EmptyStanding ==
    \A did \in Dids, context \in StandingContexts :
        Matching(testimonies, did, context) = {}
        => \A response \in getStanding(testimonies, did, context) :
               /\ Same(response.phi.value, Ratio(1, 2))
               /\ Same(response.phi.confidence, Ratio(0, 1))

\* A subject with testimonies, none of them in the requested context.
C19_Witness ==
    \E did \in Dids :
        /\ Matching(testimonies, did, NoRef) # {}
        /\ Matching(testimonies, did, "c1") = {}
        /\ \A response \in getStanding(testimonies, did, "c1") :
               Same(response.phi.confidence, Ratio(0, 1))

WindowOf(t) == CHOOSE w \in testimonySubjects : w.ref = t.subject

C13_LateTestimonyKept ==
    \A t \in windowTestimonies :
        t.createdAt > WindowOf(t).windowClosesAt
        => /\ t.flag = "post-window"
           /\ t \notin defaultEvidenceSet(windowTestimonies, t.subject)
           /\ t \in historicalQuery(windowTestimonies, t.subject)

\* A stored testimony created after the close of its window.
C13_Witness ==
    \E t \in windowTestimonies :
        /\ t.createdAt > WindowOf(t).windowClosesAt
        /\ t.flag = "post-window"
        /\ t \in historicalQuery(windowTestimonies, t.subject)

(***************************************************************************)
(* The standing computation as a function                                  *)
(***************************************************************************)
\* The testimony lists about a subject that calculatePhi can be handed: the
\* matching rows of the table in every order.
TestimonyLists(table, did, context) ==
    LET matching == Matching(table, did, context)
        n == Cardinality(matching)
    IN {[i \in 1..n |-> f[i].row] :
           f \in {g \in [1..n -> matching] :
                     \A i, j \in 1..n : i # j => g[i] # g[j]}}

AllOf(ts, category) == \A i \in DOMAIN ts : ts[i].category = category

\* C21: for every testimony list, also one with a createdAt later than the
\* time of evaluation, phi and confidence lie in [0, 1]; phi is 1 when every
\* testimony is positive and 0 when every testimony is negative.
C21_PhiInUnitInterval ==
    \A did \in Dids, context \in StandingContexts :
        \A ts \in TestimonyLists(testimonies, did, context) :
            LET phi == calculatePhi(ts, METHODOLOGY_V1)
            IN /\ Leq(Ratio(0, 1), phi.value) /\ Leq(phi.value, Ratio(1, 1))
               /\ Leq(Ratio(0, 1), phi.confidence)
               /\ Leq(phi.confidence, Ratio(1, 1))
               /\ phi.value.den > 0 /\ phi.confidence.den > 0
               /\ (ts # <<>> /\ AllOf(ts, "positive"))
                      => Same(phi.value, Ratio(1, 1))
               /\ (ts # <<>> /\ AllOf(ts, "negative"))
                      => Same(phi.value, Ratio(0, 1))

\* Two negative testimonies about one subject, one of them created after the
\* time of evaluation, and a phi of 0.
C21_Witness ==
    \E did \in Dids :
        \E ts \in TestimonyLists(testimonies, did, NoRef) :
            /\ Len(ts) = 2 /\ AllOf(ts, "negative")
            /\ \E i \in DOMAIN ts : ts[i].created_at > now
            /\ Same(calculatePhi(ts, METHODOLOGY_V1).value, Ratio(0, 1))

\* The phi value and confidence of every list of a subject's testimonies.
Scores(did, context) ==
    {[value |-> calculatePhi(ts, METHODOLOGY_V1).value,
      confidence |-> calculatePhi(ts, METHODOLOGY_V1).confidence] :
        ts \in TestimonyLists(testimonies, did, context)}

SameScore(a, b) == Same(a.value, b.value) /\ Same(a.confidence, b.confidence)

RECURSIVE ReachableFrom(_, _, _)
\* The URIs reached from `uris` by following appeals_to, in `n` more hops.
ReachableFrom(db, uris, n) ==
    IF n = 0 THEN {}
    ELSE LET next == {a.appeals_to : a \in {x \in db.molt_mod_actions :
                                                x.uri \in uris}} \ {NoRef}
         IN next \cup ReachableFrom(db, next, n - 1)

\* The action lies on a loop of references.
Cyclic(db, uri) ==
    uri \in ReachableFrom(db, {uri}, Cardinality(db.molt_mod_actions))

\* An appeal or reverse action stored without a reference.
Malformed(db, uri) ==
    \E a \in db.molt_mod_actions :
        /\ a.uri = uri
        /\ a.action \in {"appeal", "reverse"}
        /\ a.appeals_to = NoRef

\* C23: state derivation ends and returns a state for every record graph;
\* for an action whose reference chain is cyclic or malformed the state is
\* indeterminate.
C23_DerivationTerminates ==
    \A uri \in {a.uri : a \in molt_mod_actions} :
        /\ action_chain(Db, uri).terminates
        /\ DerivedStates(Db, uri) # {}
        /\ (Cyclic(Db, uri) \/ Malformed(Db, uri))
               => DerivedStates(Db, uri) = {"indeterminate"}

\* C24: every stored moderation action of kind appeal or reverse carries a
\* reference to the action it targets, and an appeal or reverse record
\* published without a reference is not stored.
C24_AppealAndReverseCarryTarget ==
    /\ \A a \in molt_mod_actions :
           a.action \in {"appeal", "reverse"} => a.appeals_to # NoRef
    /\ \A d \in delivered :
           (/\ d.collection = "app.molt.modAction"
            /\ d.record.action \in {"appeal", "reverse"}
            /\ d.record.appealsTo = NoRef
            /\ d.record.reverses = NoRef)
           => d.uri \notin {a.uri : a \in molt_mod_actions}

(***************************************************************************)
(* Deleting a testimony                                                    *)
(***************************************************************************)
StoredTestimonyUris(table) == {r.uri : r \in DOMAIN table}

\* The URIs of the testimonies some getStanding response lists.
ListedUris(table) ==
    UNION {{response.testimonies[i].uri : i \in DOMAIN response.testimonies} :
              response \in UNION {getStanding(table, did, context) :
                                     did \in Dids, context \in StandingContexts}}

\* C25: after a successful handleDeleteTestimony(uri) no getStanding
\* response lists the testimony, and every standing is what it would be had
\* the testimony never been ingested: creating and then deleting it leaves
\* every response as it was, whatever else is ingested in between.
C25_DeleteUndoesCreate ==
    /\ \A uri \in TestimonyUris :
           LET deleted == handleDeleteTestimony(testimonies, uri, TRUE)
           IN /\ deleted.result.success
              /\ uri \notin ListedUris(deleted.table)
              \* a later ingestion of another testimony commutes with it
              /\ \A p \in WellFormedParams :
                     p.uri # uri
                     => handleCreateTestimony(deleted.table, p, TRUE).table
                        = handleDeleteTestimony(
                              handleCreateTestimony(testimonies, p, TRUE).table,
                              uri, TRUE).table
    /\ \A p \in WellFormedParams :
           LET created == handleCreateTestimony(testimonies, p, TRUE)
               deleted == handleDeleteTestimony(created.table, p.uri, TRUE)
           IN (created.result.success
               /\ p.uri \notin StoredTestimonyUris(testimonies))
              => \A did \in Dids, context \in StandingContexts :
                     getStanding(deleted.table, did, context)
                         = getStanding(testimonies, did, context)

\* A successful deletion has returned, another testimony is still stored,
\* and the standings list the stored one only.
C25_Witness ==
    /\ result = Success(NoRef)
    /\ \E r \in DOMAIN testimonies, uri \in TestimonyUris :
           /\ r.uri # uri
           /\ uri \notin StoredTestimonyUris(testimonies)
           /\ ListedUris(testimonies) = {r.uri}

(***************************************************************************)
(* Votes and counters                                                      *)
(***************************************************************************)
\* C26: after any sequence of handleCreateVote and handleDeleteVote calls,
\* also two handleCreateVote calls of one voter on one subject whose
\* database steps interleave, votes holds at most one vote per voter and
\* subject.
C26_OneVotePerVoterAndSubject ==
    \A v, w \in votes :
        (v.voter_did = w.voter_did /\ v.subject = w.subject) => v = w

\* The stored votes of one direction on a post.
VotesOn(table, subject, direction) ==
    {v \in table : v.subject = subject /\ v.direction = direction}

\* C27: after any sequence of post and vote creations and deletions, in any
\* arrival order, every stored post's upvote_count is the number of stored
\* up votes on it and its downvote_count the number of stored down votes.
C27_CountersMatchVotes ==
    \A r \in posts :
        /\ r.upvote_count = Cardinality(VotesOn(votes, r.uri, "up"))
        /\ r.downvote_count = Cardinality(VotesOn(votes, r.uri, "down"))

\* C28: a successful handleCreateVote whose direction differs from the
\* voter's existing vote on the subject is a vote change: afterwards the
\* voter has exactly one vote on the subject, with the new direction and
\* URI, the old direction's count is one lower and the new one's one higher.
C28_VoteChange ==
    \A p \in WellFormedVotes :
        \A existingVotes \in ExistingVotes(PostDb, p.did, p.subject) :
            (/\ p.uri \notin {v.uri : v \in votes}
             /\ existingVotes # <<>>
             /\ existingVotes[1].direction # p.direction)
            => LET out == handleCreateVote(PostDb, p, existingVotes, 0)
                   old == VoteColumn(existingVotes[1].direction)
                   new == VoteColumn(p.direction)
               IN /\ out.result = Success(p.uri)
                  /\ {v \in out.db.votes :
                         v.voter_did = p.did /\ v.subject = p.subject}
                     = {[uri |-> p.uri, voter_did |-> p.did,
                         subject |-> p.subject, direction |-> p.direction]}
                  /\ \A before \in posts :
                         before.uri = p.subject
                         => \E after \in out.db.posts :
                                /\ after.uri = p.subject
                                /\ after[old] = before[old] - 1
                                /\ after[new] = before[new] + 1

\* The stored replies to a post.
RepliesTo(table, uri) == {r \in table : r.reply_to = uri}

\* C29: after any sequence of post creations and deletions, in any arrival
\* order, every stored post's reply_count is the number of stored posts that
\* reply to it.
C29_ReplyCountMatchesReplies ==
    \A r \in posts : r.reply_count = Cardinality(RepliesTo(posts, r.uri))

\* The steps a handleCreateVote call can take from the current state.
CreateVoteOutcomes ==
    UNION {{handleCreateVote(PostDb, p, existingVotes, failAt) :
               existingVotes \in ExistingVotes(PostDb, p.did, p.subject),
               failAt \in 0..CreateVoteSteps} :
              p \in {q \in CreateVoteParams : q.uri \notin {v.uri : v \in votes}}}

\* C30: a handleCreateVote call that returns success = FALSE leaves the
\* votes table and the post counters as they were, also when the database
\* fails part-way through a vote change.
C30_FailedVoteChangesNothing ==
    [][\A out \in CreateVoteOutcomes :
           (/\ ~out.result.success
            /\ posts' = out.db.posts
            /\ votes' = out.db.votes
            /\ writeResult' = out.result)
           => UNCHANGED <<posts, votes>>]_vars

(***************************************************************************)
(* Redelivery of a testimony                                               *)
(***************************************************************************)
\* The distinct records of a testimony list.
Records(ts) == {ts[i] : i \in DOMAIN ts}

\* C31: a testimony record ingested twice (same uri, witness, subject and
\* category) stands as after the first ingestion: it appears once in the
\* subject's testimonies and counts once toward phi and confidence.
C31_RedeliveryCountsOnce ==
    \A did \in Dids, context \in StandingContexts :
        \A ts \in TestimonyLists(testimonies, did, context) :
            /\ \A i, j \in DOMAIN ts : i # j => ts[i] # ts[j]
            /\ Same(calculatePhi(ts, METHODOLOGY_V1).confidence,
                    Clamp(confidenceOf(Cardinality(Records(ts)))))

(***************************************************************************)
(* Counters and deletions                                                  *)
(***************************************************************************)
\* C32: the upvote_count, downvote_count and reply_count of every stored
\* post are at least 0 after any sequence of create and delete handlers,
\* also after the delete of a vote or reply that was never counted.
C32_CountersNonNegative ==
    \A r \in posts :
        r.upvote_count >= 0 /\ r.downvote_count >= 0 /\ r.reply_count >= 0

\* A stored vote that its post never counted, whose deletion leaves the
\* count at 0.
C32_Witness ==
    \E v \in votes, r \in posts :
        /\ r.uri = v.subject
        /\ r[VoteColumn(v.direction)] = 0
        /\ LET out == handleDeleteVote(PostDb, v.uri, 0)
           IN /\ out.result.success
              /\ \E after \in out.db.posts :
                     after.uri = r.uri /\ after[VoteColumn(v.direction)] = 0

\* C33: deletion is idempotent: handleDeleteVote and handleDeletePost for a
\* URI that is not stored return success and change nothing, and the same
\* delete applied twice leaves the records and counters of one application.
C33_DeleteIdempotent ==
    /\ \A uri \in VoteUris :
           LET once == handleDeleteVote(PostDb, uri, 0)
               twice == handleDeleteVote(once.db, uri, 0)
           IN /\ uri \notin {v.uri : v \in votes}
                     => once.result.success /\ once.db = PostDb
              /\ twice.result.success /\ twice.db = once.db
    /\ \A uri \in PostUris :
           LET once == handleDeletePost(PostDb, uri, 0)
               twice == handleDeletePost(once.db, uri, 0)
           IN /\ uri \notin {r.uri : r \in posts}
                     => once.result.success /\ once.db = PostDb
              /\ twice.result.success /\ twice.db = once.db

\* A delete has returned success, the vote v1 is not stored, and a post with
\* a counted vote is: the second delete of v1 finds the counter above 0.
C33_Witness ==
    /\ writeResult = Success(NoRef)
    /\ "v1" \notin {v.uri : v \in votes}
    /\ \E r \in posts : r.uri = "p1" /\ r.upvote_count > 0
    /\ handleDeleteVote(PostDb, "v1", 0).db = PostDb

(***************************************************************************)
(* Paging through a submolt                                                *)
(***************************************************************************)
RECURSIVE Returned(_)
\* The posts of the pages, in the order the client received them.
Returned(pages) ==
    IF pages = <<>> THEN <<>>
    ELSE Returned(SubSeq(pages, 1, Len(pages) - 1)) \o pages[Len(pages)].posts

SubmoltPosts(submolt) == {r.uri : r \in {x \in feed_posts : x.submolt = submolt}}

\* min(limit, 100) with the default of 25, and no fewer than no post.
PageSize(limit) ==
    LET asked == IF limit.given THEN limit.value ELSE DEFAULT_LIMIT
    IN IF asked < 0 THEN 0 ELSE Min(asked, MAX_LIMIT)

\* C34: a client that passes each returned cursor to the next call, with no
\* write in between, receives every post of the submolt exactly once, for
\* the sort orders time, hot and top, also when posts share a timestamp.
C34_PagingReturnsEachPostOnce ==
    (paging # NoPaging /\ PageSize(paging.limit) >= 1)
    => LET received == Returned(paging.pages)
       IN /\ \A i, j \in DOMAIN received : i # j => received[i] # received[j]
          /\ paging.done
                 => {received[i] : i \in DOMAIN received} = SubmoltPosts("c1")

\* C35: for every limit (absent, zero, negative, above 100) a call returns
\* at most min(limit, 100) posts, 25 by default, and a cursor exactly when a
\* further post of the submolt exists beyond the returned page.
C35_LimitAndCursor ==
    (paging # NoPaging /\ paging.pages # <<>>)
    => LET first == paging.pages[1]
       IN /\ Len(first.posts) <= PageSize(paging.limit)
          /\ first.cursor.present
                 <=> Len(first.posts) < Cardinality(SubmoltPosts("c1"))

(***************************************************************************)
(* Recency and witness standing                                            *)
(***************************************************************************)
\* A testimony of `witness` about a third party, as calculatePhi reads it.
TestimonyBy(witness, category, created_at) ==
    [uri |-> "t1", witness_did |-> witness, subject_did |-> "carol",
     category |-> category, content |-> "text", context |-> NoRef,
     created_at |-> created_at]

Half == Ratio(1, 2)

\* C36: recent testimonies weigh more: the weight halves with every
\* half-life of age, so the more recently created of two testimonies never
\* weighs less; for one positive and one negative testimony phi is above
\* 0.5 exactly when the positive one is the more recent, and 0.5 when they
\* are of the same age.
C36_RecentWeighsMore ==
    /\ \A a, b \in Times :
           /\ a >= b => recencyWeight(a) >= recencyWeight(b)
           /\ a = b + 1 => recencyWeight(a) = 2 * recencyWeight(b)
    /\ \A did \in Dids :
           \A ts \in TestimonyLists(testimonies, did, NoRef) :
               (Len(ts) = 2 /\ ts[1].category = "positive"
                            /\ ts[2].category = "negative")
               => LET phi == calculatePhi(ts, METHODOLOGY_V1).value
                  IN /\ ~Leq(phi, Half) <=> ts[1].created_at > ts[2].created_at
                     /\ Same(phi, Half) <=> ts[1].created_at = ts[2].created_at

\* A subject with an older negative and a newer positive testimony, and a
\* phi above 0.5.
C36_Witness ==
    \E did \in Dids :
        \E ts \in TestimonyLists(testimonies, did, NoRef) :
            /\ Len(ts) = 2
            /\ ts[1].category = "positive" /\ ts[2].category = "negative"
            /\ ts[1].created_at > ts[2].created_at
            /\ ~Leq(calculatePhi(ts, METHODOLOGY_V1).value, Half)

\* C37: phi is computed as the disclosed methodology molt-v1 says: witness
\* standing affects testimony weight, so of two testimonies of equal age
\* and opposite category the one of the higher-standing witness contributes
\* more to phi.
C37_WitnessStandingCounts ==
    \A w1, w2 \in Dids, t \in Times :
        (/\ Scores(w1, NoRef) # {}
         /\ \A a \in Scores(w1, NoRef), b \in Scores(w2, NoRef) :
                ~Leq(a.value, b.value))
        => LET ts == <<TestimonyBy(w1, "positive", t),
                       TestimonyBy(w2, "negative", t)>>
           IN ~Leq(calculatePhi(ts, METHODOLOGY_V1).value, Half)

(***************************************************************************)
(* Expiry                                                                  *)
(***************************************************************************)
\* C38: an action with no expiresAt is never expired; an action with an
\* expiresAt is expired exactly when now > expiresAt, so at now = expiresAt
\* it is still in effect (and, the clock only advancing, an expired action
\* stays expired).
C38_ExpiredExactlyAfterExpiresAt ==
    \A x \in molt_mod_actions :
        LET past == x.expires_at # NoTime /\ now > x.expires_at
        IN /\ ("expired" \in DerivedStates(Db, x.uri)) <=> past
           /\ (getBanTimeRemaining(x) = "Expired") <=> past
           /\ x.action = "ban" => (isBanActive(x) <=> ~past)
           /\ x.expires_at = NoTime => getBanTimeRemaining(x) = "Permanent"

====
